---- MODULE Spec2Model ----
(***************************************************************************)
(* Resume ingestion and labelling pipeline of preprocess.py:               *)
(*   _clean_text, extract_text, _match_prefix_to_profile, derive_profile   *)
(*   and preprocess_data.                                                  *)
(* Python strings are TLA+ strings; Len, SubSeq and \o act on them         *)
(* character by character.                                                 *)
(***************************************************************************)
EXTENDS Integers, Sequences, FiniteSets, Bags, TLC

VARIABLES
    pc,              \* which call of the program has been made
    s,               \* argument of _clean_text
    cleaned,         \* results of the successive _clean_text calls
    prefix,          \* argument of _match_prefix_to_profile
    maybe,           \* its Optional[str] result
    file_name,       \* arguments of the label resolution
    folder_name,
    extracted_text,
    Category,        \* df["Category"] of the record
    Profile,         \* df["Profile"] of the record
    file_path,       \* argument of extract_text
    content,         \* what the file at file_path holds
    extracted,       \* outcome of extract_text
    tree,            \* the files under main_path
    runs             \* outcome of each preprocess_data run

vars == <<pc, s, cleaned, prefix, maybe, file_name, folder_name, extracted_text,
          Category, Profile, file_path, content, extracted, tree, runs>>

cleanVars   == <<s, cleaned>>
prefixVars  == <<prefix, maybe>>
labelVars   == <<file_name, folder_name, extracted_text, Category, Profile>>
extractVars == <<file_path, content, extracted>>
walkVars    == <<tree, runs>>

-----------------------------------------------------------------------------
(* Bounds of the model *)

MaxCleanLen == 5      \* longest argument of _clean_text
MaxPrefixParts == 2   \* pieces a filename prefix is built from
MaxPad == 1           \* blanks around a folder name
MaxTextWords == 2     \* words of a resume text
MaxFiles == 3         \* files under main_path

-----------------------------------------------------------------------------
(* Python str primitives *)

Chr(str, i) == SubSeq(str, i, i)

Drop(str, n) == SubSeq(str, n + 1, Len(str))

\* k in str
Contains(str, k) ==
    \E i \in 0..(Len(str) - Len(k)) : SubSeq(str, i + 1, i + Len(k)) = k

\* str.endswith(suffix)
endswith(str, suffix) ==
    /\ Len(suffix) <= Len(str)
    /\ SubSeq(str, Len(str) - Len(suffix) + 1, Len(str)) = suffix

UpperCase == "ABCDEFGHIJKLMNOPQRSTUVWXYZ"
LowerCase == "abcdefghijklmnopqrstuvwxyz"
Digits    == "0123456789"

\* the lowercase letter of each uppercase letter
ToLower ==
    [c \in {Chr(UpperCase, i) : i \in 1..Len(UpperCase)} |->
        Chr(LowerCase, CHOOSE i \in 1..Len(UpperCase) : Chr(UpperCase, i) = c)]

RECURSIVE lower(_)
\* str.lower()
lower(str) ==
    IF str = "" THEN ""
    ELSE LET c == Chr(str, 1)
         IN (IF c \in DOMAIN ToLower THEN ToLower[c] ELSE c) \o lower(Tail(str))

\* the characters str.strip() removes and \s matches
Whitespace == {" ", "\t", "\n", "\r", "\f"}

RECURSIVE lstrip(_)
lstrip(str) ==
    IF str # "" /\ Chr(str, 1) \in Whitespace THEN lstrip(Tail(str)) ELSE str

RECURSIVE rstrip(_)
rstrip(str) ==
    IF str # "" /\ Chr(str, Len(str)) \in Whitespace
    THEN rstrip(SubSeq(str, 1, Len(str) - 1))
    ELSE str

\* str.strip()
strip(str) == rstrip(lstrip(str))

\* length of the longest run of characters of the class at the head of str
RECURSIVE RunLen(_, _)
RunLen(str, class) ==
    IF str # "" /\ Chr(str, 1) \in class THEN 1 + RunLen(Tail(str), class) ELSE 0

-----------------------------------------------------------------------------
(* _clean_text *)

RECURSIVE sub_crlf(_)
\* re.sub(r"\r\n", "\n", s)
sub_crlf(str) ==
    IF str = "" THEN ""
    ELSE IF Len(str) >= 2 /\ SubSeq(str, 1, 2) = "\r\n"
         THEN "\n" \o sub_crlf(Drop(str, 2))
         ELSE Chr(str, 1) \o sub_crlf(Tail(str))

RECURSIVE sub_newlines(_)
\* re.sub(r"\n+", "\n", s)
sub_newlines(str) ==
    IF str = "" THEN ""
    ELSE LET n == RunLen(str, {"\n"})
         IN IF n >= 1
            THEN "\n" \o sub_newlines(Drop(str, n))
            ELSE Chr(str, 1) \o sub_newlines(Tail(str))

RECURSIVE sub_blanks(_)
\* re.sub(r"[ \t]{2,}", " ", s)
sub_blanks(str) ==
    IF str = "" THEN ""
    ELSE LET n == RunLen(str, {" ", "\t"})
         IN IF n >= 2
            THEN " " \o sub_blanks(Drop(str, n))
            ELSE Chr(str, 1) \o sub_blanks(Tail(str))

_clean_text(str) ==
    IF str = "" THEN ""
    ELSE strip(sub_blanks(sub_newlines(sub_crlf(str))))


-----------------------------------------------------------------------------
(* Mapping tables *)

\* lowercased folder name -> category, as <<key, value>> pairs
FOLDER_CATEGORY_MAP == <<
    <<"peoplesoft resumes", "PeopleSoft">>,
    <<"sql developer lightning insight", "SQL Developer">>,
    <<"workday resumes", "Workday">> >>

\* normalized filename prefix -> profile, in the dict's insertion order
PREFIX_PROFILE_MAP == <<
    <<"react dev", "UI Developer (React JS)">>,
    <<"react developer", "UI Developer (React JS)">>,
    <<"react js developer", "UI Developer (React JS)">>,
    <<"ui-developer/ react js developer", "UI Developer (React JS)">>,
    <<"ui developer", "UI Developer (React JS)">>,
    <<"peoplesoft admin", "PeopleSoft Administrator">>,
    <<"peoplesoft", "PeopleSoft Technical/Functional Consultant">>,
    <<"peoplesoft finance", "PeopleSoft Finance Specialist">>,
    <<"peoplesoft fscm", "PeopleSoft FSCM Consultant">>,
    <<"workday", "Workday Specialist">>,
    <<"sql developer", "Database / SQL Developer">>,
    <<"sql", "SQL Developer">>,
    <<"internship", "Software Intern">>,
    <<"intern", "Software Intern">> >>

\* key in d
HasKey(d, k) == \E i \in 1..Len(d) : d[i][1] = k

\* d[k]
Lookup(d, k) == d[CHOOSE i \in 1..Len(d) : d[i][1] = k][2]

\* d.get(k, default)
Get(d, k, default) == IF HasKey(d, k) THEN Lookup(d, k) ELSE default

\* Optional[str]
None == <<>>
Some(v) == <<v>>

-----------------------------------------------------------------------------
(* _match_prefix_to_profile *)

PrefixClass ==
    {Chr(LowerCase, i) : i \in 1..Len(LowerCase)}
        \cup {Chr(Digits, i) : i \in 1..Len(Digits)} \cup {" "}

\* length of the longest run of characters outside the class at the head of str
RECURSIVE RunLenNot(_, _)
RunLenNot(str, class) ==
    IF str # "" /\ Chr(str, 1) \notin class
    THEN 1 + RunLenNot(Tail(str), class)
    ELSE 0

RECURSIVE sub_nonalnum(_)
\* re.sub(r"[^a-z0-9 ]+", " ", p)
sub_nonalnum(str) ==
    IF str = "" THEN ""
    ELSE LET n == RunLenNot(str, PrefixClass)
         IN IF n >= 1
            THEN " " \o sub_nonalnum(Drop(str, n))
            ELSE Chr(str, 1) \o sub_nonalnum(Tail(str))

RECURSIVE sub_spaces(_)
\* re.sub(r"\s+", " ", p)
sub_spaces(str) ==
    IF str = "" THEN ""
    ELSE LET n == RunLen(str, Whitespace)
         IN IF n >= 1
            THEN " " \o sub_spaces(Drop(str, n))
            ELSE Chr(str, 1) \o sub_spaces(Tail(str))

\* the three assignments to p
normalize_prefix(str) == strip(sub_spaces(sub_nonalnum(strip(lower(str)))))

\* for key, val in PREFIX_PROFILE_MAP.items(): if key in p: return val
first_substring_match(p) ==
    LET hits == {i \in 1..Len(PREFIX_PROFILE_MAP) :
                    Contains(p, PREFIX_PROFILE_MAP[i][1])}
    IN IF hits = {} THEN None
       ELSE Some(PREFIX_PROFILE_MAP[CHOOSE i \in hits : \A j \in hits : i <= j][2])

\* the lookup without its exact-key step
match_prefix_no_exact(str) ==
    LET p == normalize_prefix(str)
    IN IF p = "" THEN None ELSE first_substring_match(p)

_match_prefix_to_profile(str) ==
    LET p == normalize_prefix(str)
    IN IF p = "" THEN None
       ELSE IF HasKey(PREFIX_PROFILE_MAP, p)
            THEN Some(Lookup(PREFIX_PROFILE_MAP, p))
            ELSE first_substring_match(p)

-----------------------------------------------------------------------------
(* derive_profile and the Category lookup of preprocess_data *)

\* str.rfind(c) + 1: the place of the last c in str, 0 when there is none
LastIndexOf(str, c) ==
    LET at == {i \in 1..Len(str) : Chr(str, i) = c}
    IN IF at = {} THEN 0 ELSE CHOOSE i \in at : \A j \in at : j <= i

\* str.find(c) + 1: the place of the first c in str, 0 when there is none
FirstIndexOf(str, c) ==
    LET at == {i \in 1..Len(str) : Chr(str, i) = c}
    IN IF at = {} THEN 0 ELSE CHOOSE i \in at : \A j \in at : i <= j

\* os.path.splitext(name) of a name without directory separators: the extension
\* starts at the last dot, unless only dots precede it
splitext(name) ==
    LET d == LastIndexOf(name, ".")
    IN IF d > 0 /\ \E i \in 1..(d - 1) : Chr(name, i) # "."
       THEN <<SubSeq(name, 1, d - 1), Drop(name, d - 1)>>
       ELSE <<name, "">>

\* str.split(sep)[0]
split_first(str, sep) ==
    LET i == FirstIndexOf(str, sep)
    IN IF i = 0 THEN str ELSE SubSeq(str, 1, i - 1)

\* name_root.split("_")[0] if "_" in name_root else name_root.split("-")[0]
filename_prefix(name) ==
    LET name_root == splitext(name)[1]
    IN IF Contains(name_root, "_")
       THEN split_first(name_root, "_")
       ELSE split_first(name_root, "-")

DEFAULT_CATEGORY == "React JS Developer"

\* df["Folder"].apply(lambda x: FOLDER_CATEGORY_MAP.get(x.lower(), ...))
category_of(folder) == Get(FOLDER_CATEGORY_MAP, lower(folder), DEFAULT_CATEGORY)

GENERIC_FOLDERS == {"resumes", "resume", ".", ""}

\* the sub-role checks with finance tested before admin
peoplesoft_profile_finance_first(name, text) ==
    LET fname == lower(name)
        t == lower(text)
    IN IF Contains(fname, "finance") \/ Contains(t, "finance")
       THEN "PeopleSoft Finance Specialist"
       ELSE IF Contains(fname, "admin") \/ Contains(t, "admin")
       THEN "PeopleSoft Administrator"
       ELSE IF Contains(fname, "fscm") \/ Contains(t, "fscm")
       THEN "PeopleSoft FSCM Consultant"
       ELSE IF Contains(fname, "bda") \/ Contains(t, "business data")
       THEN "PeopleSoft Business Data Analyst"
       ELSE "PeopleSoft Technical/Functional Consultant"

\* the branch under  if cat == "PeopleSoft"
peoplesoft_profile(name, text) ==
    LET fname == lower(name)
        t == lower(text)
    IN IF Contains(fname, "admin") \/ Contains(t, "admin")
       THEN "PeopleSoft Administrator"
       ELSE IF Contains(fname, "fscm") \/ Contains(t, "fscm")
       THEN "PeopleSoft FSCM Consultant"
       ELSE IF Contains(fname, "finance") \/ Contains(t, "finance")
       THEN "PeopleSoft Finance Specialist"
       ELSE IF Contains(fname, "bda") \/ Contains(t, "business data")
       THEN "PeopleSoft Business Data Analyst"
       ELSE "PeopleSoft Technical/Functional Consultant"

\* folder_key in FOLDER_CATEGORY_MAP, of the stripped and lowercased folder
folder_is_mapped(folder) == HasKey(FOLDER_CATEGORY_MAP, lower(strip(folder)))

\* 1) folder-based: Some(profile) when the tier returns, None when it falls through
folder_tier(name, folder, text) ==
    LET folder_normal == strip(folder)
        folder_key == lower(folder_normal)
    IN IF folder_normal = "" THEN None
       ELSE IF HasKey(FOLDER_CATEGORY_MAP, folder_key)
            THEN LET cat == Lookup(FOLDER_CATEGORY_MAP, folder_key)
                 IN IF cat = "PeopleSoft" THEN Some(peoplesoft_profile(name, text))
                    ELSE IF cat = "Workday" THEN Some("Workday Specialist")
                    ELSE IF cat = "SQL Developer"
                         THEN Some("Database Developer / SQL Developer")
                    ELSE Some(cat)
            ELSE IF folder_key # "" /\ folder_key \notin GENERIC_FOLDERS
                 THEN Some(folder_normal)
                 ELSE None

\* 2) filename prefix: maybe; taken when truthy
prefix_tier(name) ==
    LET m == _match_prefix_to_profile(filename_prefix(name))
    IN IF m # None /\ m[1] # "" THEN m ELSE None

\* 3) keyword-based from text, and the final fallback
keyword_tier(text) ==
    LET t == lower(text)
    IN IF /\ Contains(t, "react")
          /\ \/ Contains(t, "ui") \/ Contains(t, "frontend")
             \/ Contains(t, "front end") \/ Contains(t, "javascript")
       THEN "UI Developer (React JS)"
       ELSE IF Contains(t, "peoplesoft")
       THEN IF Contains(t, "admin") THEN "PeopleSoft Administrator"
            ELSE IF Contains(t, "fscm") THEN "PeopleSoft FSCM Consultant"
            ELSE IF Contains(t, "finance") \/ Contains(t, "general ledger")
                 THEN "PeopleSoft Finance Specialist"
            ELSE "PeopleSoft Technical/Functional Consultant"
       ELSE IF Contains(t, "workday") \/ Contains(t, "hcm")
       THEN "Workday Specialist"
       ELSE IF \E k \in {"sql", "pl/sql", "oracle", "mysql", "postgresql", "database"} :
                   Contains(t, k)
       THEN "Database Developer / SQL Developer"
       ELSE IF \E k \in {"intern", "internship"} : Contains(t, k)
       THEN "Software Intern"
       ELSE "Other"

\* the tiers without the final fallback "Other"
derive_profile_no_fallback(name, folder, text) ==
    LET byFolder == folder_tier(name, folder, text)
        byPrefix == prefix_tier(name)
        byText   == keyword_tier(text)
    IN IF byFolder # None THEN byFolder[1]
       ELSE IF byPrefix # None THEN byPrefix[1]
       ELSE IF byText # "Other" THEN byText
       ELSE ""

\* the tiers with the text keywords consulted before the filename prefix
derive_profile_keywords_first(name, folder, text) ==
    LET byFolder == folder_tier(name, folder, text)
        byPrefix == prefix_tier(name)
        byText   == keyword_tier(text)
    IN IF byFolder # None THEN byFolder[1]
       ELSE IF byText # "Other" THEN byText
       ELSE IF byPrefix # None THEN byPrefix[1]
       ELSE byText

derive_profile(name, folder, text) ==
    LET byFolder == folder_tier(name, folder, text)
        byPrefix == prefix_tier(name)
    IN IF byFolder # None THEN byFolder[1]
       ELSE IF byPrefix # None THEN byPrefix[1]
       ELSE keyword_tier(text)

-----------------------------------------------------------------------------
(* extract_text *)

\* what fitz.open(path), page.get_text(), docx2txt.process(path) and
\* open(path, encoding="utf-8").read() do with each kind of file content
ContentKinds == {"pdf", "pdf_bad_page", "docx", "utf8", "bytes", "empty"}

\* fitz.open raises on anything that is not a PDF, a zero-byte file included
fitz_open_ok(c) == c.kind \in {"pdf", "pdf_bad_page"}

\* page.get_text raises on a damaged page
get_text_ok(c) == c.kind = "pdf"

\* docx2txt.process raises on anything that is not a docx archive
docx2txt_ok(c) == c.kind = "docx"

\* f.read() raises UnicodeDecodeError on bytes that are not UTF-8
read_utf8_ok(c) == c.kind \in {"utf8", "empty"}

Returned(strategy, value) == [raised |-> FALSE, strategy |-> strategy, value |-> value]
Raised(strategy)          == [raised |-> TRUE, strategy |-> strategy, value |-> ""]

\* extract_text_from_pdf: a failing open gives no text, a failing page an empty
\* page; the text is cleaned
extract_text_from_pdf(c) ==
    Returned("pdf", _clean_text(IF fitz_open_ok(c) /\ get_text_ok(c) THEN c.text ELSE ""))

\* extract_text_from_docx
extract_text_from_docx(c) ==
    Returned("docx", _clean_text(IF docx2txt_ok(c) THEN c.text ELSE ""))

\* extract_text_from_doc: the module imports neither pythoncom nor win32com, so
\* the first statement of the try block raises NameError, which is caught
extract_text_from_doc(c) == Returned("legacy_doc", _clean_text(""))

\* the outcome of extract_text(file_path) on a file holding c: the branch taken,
\* and the string returned or the exception that leaves the function
extract_text(path, c) ==
    IF endswith(path, ".pdf")
    THEN IF fitz_open_ok(c) /\ get_text_ok(c)
         THEN Returned("pdf", c.text) ELSE Raised("pdf")
    ELSE IF endswith(path, ".docx")
    THEN IF docx2txt_ok(c) THEN Returned("docx", c.text) ELSE Raised("docx")
    ELSE IF read_utf8_ok(c) THEN Returned("text", c.text) ELSE Raised("text")

-----------------------------------------------------------------------------
(* preprocess_data *)

\* os.path.basename(path)
basename(path) == Drop(path, LastIndexOf(path, "/"))

\* os.path.join(root, fname)
join(root, fname) ==
    IF root = "" \/ endswith(root, "/") THEN root \o fname ELSE root \o "/" \o fname

\* the dict appended to rows for one file, before the label columns are added
row_of(f, text) ==
    [Folder |-> basename(f.root),
     File   |-> f.fname,
     Type   |-> lower(splitext(f.fname)[2]),
     Path   |-> join(f.root, f.fname),
     Text   |-> text]

\* df["Category"] = ...; df["Profile"] = ...
with_labels(r) ==
    [Folder |-> r.Folder, File |-> r.File, Type |-> r.Type, Path |-> r.Path,
     Text |-> r.Text,
     Category |-> category_of(r.Folder),
     Profile |-> derive_profile(r.File, r.Folder, r.Text)]

\* the loop over os.walk, visiting the files in the given order: the rows
\* gathered, or the exception of the first extract_text call that raises
RECURSIVE gather(_, _)
gather(order, rows) ==
    IF order = <<>> THEN [raised |-> FALSE, rows |-> rows]
    ELSE LET f == Head(order)
             x == extract_text(join(f.root, f.fname), f.content)
         IN IF x.raised THEN [raised |-> TRUE, rows |-> <<>>]
            ELSE gather(Tail(order), Append(rows, row_of(f, x.value)))

\* the label columns computed from the text of the file visited last
preprocess_data_stale_text(order) ==
    LET g == gather(order, <<>>)
    IN IF g.raised \/ g.rows = <<>> THEN g
       ELSE [raised |-> FALSE,
             rows |-> [i \in 1..Len(g.rows) |->
                          [with_labels(g.rows[i]) EXCEPT
                              !.Profile = derive_profile(g.rows[i].File, g.rows[i].Folder,
                                                         g.rows[Len(g.rows)].Text)]]]

preprocess_data(order) ==
    LET g == gather(order, <<>>)
    IN IF g.raised \/ g.rows = <<>> THEN g
       ELSE [raised |-> FALSE,
             rows |-> [i \in 1..Len(g.rows) |-> with_labels(g.rows[i])]]

\* str.startswith(pre)
startswith(str, pre) == Len(pre) <= Len(str) /\ SubSeq(str, 1, Len(pre)) = pre

\* the orders os.walk can visit the files of a tree in: each file once, the files
\* of one directory together, a directory before the directories under it
WalkOrders(files) ==
    LET n == Cardinality(files)
    IN {q \in [1..n -> files] :
           /\ \A i, j \in 1..n : i # j => q[i] # q[j]
           /\ \A i, j, k \in 1..n :
                  (i < j /\ j < k /\ q[i].root = q[k].root) => q[j].root = q[i].root
           /\ \A i, j \in 1..n :
                  (i < j) => ~startswith(q[i].root, q[j].root \o "/")}

-----------------------------------------------------------------------------
(* Inputs *)

RECURSIVE Strings(_, _)
\* every string of at most n characters of the alphabet
Strings(alphabet, n) ==
    IF n = 0 THEN {""}
    ELSE LET shorter == Strings(alphabet, n - 1)
         IN shorter \cup {c \o w : c \in alphabet, w \in shorter}

CleanAlphabet == {"\r", "\n", " ", "\t", "a"}

Idle == "-"

RECURSIVE Concats(_, _)
\* every concatenation of at most n pieces of the vocabulary
Concats(vocab, n) ==
    IF n = 0 THEN {""}
    ELSE LET shorter == Concats(vocab, n - 1)
         IN shorter \cup {w \o v : w \in shorter, v \in vocab}

PrefixVocab ==
    {"React Dev", "PeopleSoft", "PeopleSoft Finance", " Lead", " admin", " FSCM",
     "SQL", " Developer", "Intern", "ship", "UI-Developer/ React JS Developer",
     "Workday", "  ", "#", "\t", "x1"}

\* n blanks
RECURSIVE Pad(_)
Pad(n) == IF n = 0 THEN "" ELSE " " \o Pad(n - 1)

FolderBases ==
    {"", "Resumes", ".", "PeopleSoft Resumes", "Workday Resumes",
     "sql developer lightning insight", "Java Developers"}

\* a folder base with up to MaxPad blanks before it or after it
FolderNames ==
    {Pad(i) \o b : i \in 0..MaxPad, b \in FolderBases}
        \cup {b \o Pad(i) : i \in 0..MaxPad, b \in FolderBases}

FileStems ==
    {"", "react dev", "React-Dev", "PeopleSoft Admin", "finance", "fscm", "bda",
     "SQL", "internship", "resume.txt"}

FileTails == {"", "_jsmith.pdf", "-x.docx", " admin_finance.pdf"}

FileNames == {a \o b : a \in FileStems, b \in FileTails}

TextWords ==
    {"PeopleSoft", "React UI", "admin", "FSCM", "finance", "Workday", "MySQL"}

RECURSIVE Sentences(_, _)
\* every text of at most n words of the vocabulary, separated by blanks
Sentences(vocab, n) ==
    IF n = 0 THEN {""}
    ELSE LET shorter == Sentences(vocab, n - 1)
         IN shorter \cup {(IF w = "" THEN "" ELSE w \o " ") \o v :
                             w \in shorter, v \in vocab}

Texts == Sentences(TextWords, MaxTextWords)

ExtractStems == {"cv", "a.b"}

ExtractExts ==
    {".pdf", ".PDF", ".Pdf", ".docx", ".DOCX", ".doc", ".DOC", ".txt", ".TXT",
     ".csv", ".png", ""}

ExtractPaths == {"up/" \o a \o e : a \in ExtractStems, e \in ExtractExts}

ContentTexts == {"PeopleSoft admin", "a\r\n b"}

\* a zero-byte file holds no text
Contents ==
    {[kind |-> k, text |-> x] : k \in ContentKinds \ {"empty"}, x \in ContentTexts}
        \cup {[kind |-> "empty", text |-> ""]}

File(root, fname, kind, text) ==
    [root |-> root, fname |-> fname, content |-> [kind |-> kind, text |-> text]]

\* the files a tree under main_path "r" is made of
Universe ==
    {File("r/PeopleSoft Resumes", "Admin_finance.pdf", "pdf", "PeopleSoft finance"),
     File("r/Resumes", "react dev_jsmith.docx", "docx", "PeopleSoft admin"),
     File("r/Resumes", "cv.txt", "utf8", "MySQL"),
     File("r/old/Resumes", "cv.txt", "utf8", "MySQL"),
     File("r/Resumes", "scan.pdf", "empty", ""),
     File("r/ Workday Resumes", "w.txt", "utf8", "Workday intern"),
     File("r", "notes.txt", "utf8", "React UI")}

Trees == {t \in SUBSET Universe : Cardinality(t) <= MaxFiles}

-----------------------------------------------------------------------------
(* Normalisation: two successive _clean_text calls on one input *)

InitClean ==
    /\ pc = "clean"
    /\ s \in Strings(CleanAlphabet, MaxCleanLen)
    /\ cleaned = <<>>
    /\ prefix = Idle /\ maybe = Idle
    /\ file_name = Idle /\ folder_name = Idle /\ extracted_text = Idle
    /\ Category = Idle /\ Profile = Idle
    /\ file_path = Idle /\ content = Idle /\ extracted = Idle
    /\ tree = {} /\ runs = <<>>

CleanRaw ==
    /\ pc = "clean"
    /\ cleaned = <<>>
    /\ cleaned' = <<_clean_text(s)>>
    /\ UNCHANGED <<pc, s, prefixVars, labelVars, extractVars, walkVars>>

CleanAgain ==
    /\ pc = "clean"
    /\ Len(cleaned) = 1
    /\ cleaned' = Append(cleaned, _clean_text(cleaned[1]))
    /\ UNCHANGED <<pc, s, prefixVars, labelVars, extractVars, walkVars>>

NextClean == CleanRaw \/ CleanAgain

SpecClean == InitClean /\ [][NextClean]_vars

\* C7: _clean_text(_clean_text(s)) = _clean_text(s) for every input string s
CleanIdempotent ==
    (pc = "clean" /\ Len(cleaned) = 2) => cleaned[2] = cleaned[1]

-----------------------------------------------------------------------------
(* Prefix lookup: one _match_prefix_to_profile call *)

InitPrefix ==
    /\ pc = "prefix"
    /\ prefix \in Concats(PrefixVocab, MaxPrefixParts)
    /\ maybe = Idle
    /\ s = Idle /\ cleaned = <<>>
    /\ file_name = Idle /\ folder_name = Idle /\ extracted_text = Idle
    /\ Category = Idle /\ Profile = Idle
    /\ file_path = Idle /\ content = Idle /\ extracted = Idle
    /\ tree = {} /\ runs = <<>>

MatchPrefix ==
    /\ pc = "prefix"
    /\ maybe' = _match_prefix_to_profile(prefix)
    /\ pc' = "prefix_done"
    /\ UNCHANGED <<prefix, cleanVars, labelVars, extractVars, walkVars>>

NextPrefix == MatchPrefix

SpecPrefix == InitPrefix /\ [][NextPrefix]_vars

\* the maximal runs of [a-z0-9] of str, joined by single blanks
RECURSIVE JoinedWords(_)
JoinedWords(str) ==
    LET skip == RunLenNot(str, PrefixClass \ {" "})
        rest == Drop(str, skip)
        n    == RunLen(rest, PrefixClass \ {" "})
        tail == JoinedWords(Drop(rest, n))
    IN IF rest = "" THEN ""
       ELSE SubSeq(rest, 1, n) \o (IF tail = "" THEN "" ELSE " " \o tail)

PrefixKeysIn(p) ==
    {i \in 1..Len(PREFIX_PROFILE_MAP) : Contains(p, PREFIX_PROFILE_MAP[i][1])}

\* C9: the prefix is normalized to its lowercased [a-z0-9] words joined by single
\* blanks; an empty normalized prefix gives None; an exact key gives its value;
\* otherwise the value of the first key, in insertion order, that is a substring
\* of the normalized prefix; None when there is none
PrefixLookupPolicy ==
    pc = "prefix_done" =>
        LET p == JoinedWords(lower(prefix))
            exact == {i \in 1..Len(PREFIX_PROFILE_MAP) : PREFIX_PROFILE_MAP[i][1] = p}
            hits == PrefixKeysIn(p)
        IN /\ p = "" => maybe = None
           /\ (p # "" /\ exact # {}) =>
                  \E i \in exact : maybe = Some(PREFIX_PROFILE_MAP[i][2])
           /\ (p # "" /\ exact = {} /\ hits = {}) => maybe = None
           /\ (p # "" /\ exact = {} /\ hits # {}) =>
                  \E i \in hits : /\ \A j \in hits : i <= j
                                  /\ maybe = Some(PREFIX_PROFILE_MAP[i][2])

\* a prefix that holds the longer key "peoplesoft finance" without being it, and
\* is resolved by the earlier, shorter key "peoplesoft"
PrefixFirstNotLongest ==
    /\ pc = "prefix_done"
    /\ Contains(JoinedWords(lower(prefix)), "peoplesoft finance")
    /\ ~HasKey(PREFIX_PROFILE_MAP, JoinedWords(lower(prefix)))
    /\ maybe = Some("PeopleSoft Technical/Functional Consultant")

-----------------------------------------------------------------------------
(* Label resolution of one record: Category, then Profile *)

InitLabel ==
    /\ pc = "label"
    /\ file_name \in FileNames
    /\ folder_name \in FolderNames
    /\ extracted_text \in Texts
    /\ Category = Idle /\ Profile = Idle
    /\ s = Idle /\ cleaned = <<>>
    /\ prefix = Idle /\ maybe = Idle
    /\ file_path = Idle /\ content = Idle /\ extracted = Idle
    /\ tree = {} /\ runs = <<>>

ResolveLabels ==
    /\ pc = "label"
    /\ Category' = category_of(folder_name)
    /\ Profile' = derive_profile(file_name, folder_name, extracted_text)
    /\ pc' = "label_done"
    /\ UNCHANGED <<file_name, folder_name, extracted_text,
                   cleanVars, prefixVars, extractVars, walkVars>>

NextLabel == ResolveLabels

SpecLabel == InitLabel /\ [][NextLabel]_vars

\* C4: label resolution is total: every (fileName, folderName, text) triple gets
\* a category and a profile that are both non-empty strings
LabelTotality ==
    pc = "label_done" =>
        /\ Category \in STRING /\ Category # ""
        /\ Profile \in STRING /\ Profile # ""

\* all-empty inputs, and a whitespace-only folder, resolved to the defaults
LabelTotalityWitness ==
    /\ pc = "label_done"
    /\ file_name = "" /\ extracted_text = ""
    /\ folder_name = Pad(1)
    /\ Category = DEFAULT_CATEGORY
    /\ Profile = "Other"

\* the folder is empty or a generic placeholder
IsGenericFolder(folder) == lower(strip(folder)) \in {"", "resumes", "resume", "."}

\* C5: the first tier with a result decides: a result of the folder tier is the
\* profile, and under an empty or generic folder a filename prefix that resolves
\* in PREFIX_PROFILE_MAP decides the profile for every body text
TierPrecedence ==
    pc = "label_done" =>
        LET byFolder == folder_tier(file_name, folder_name, extracted_text)
            byPrefix == _match_prefix_to_profile(filename_prefix(file_name))
        IN /\ byFolder # None => Profile = byFolder[1]
           /\ (IsGenericFolder(folder_name) /\ byPrefix # None) =>
                  Profile = byPrefix[1]

\* "react dev_jsmith.pdf" under "Resumes" with a text naming PeopleSoft
TierPrecedenceWitness ==
    /\ pc = "label_done"
    /\ file_name = "react dev_jsmith.pdf"
    /\ folder_name = "Resumes"
    /\ Contains(extracted_text, "PeopleSoft")
    /\ Profile = "UI Developer (React JS)"

\* the sub-roles of a PeopleSoft folder in their check order: the marker looked
\* for in the file name, the one looked for in the text, the profile
PeopleSoftSubRoles == <<
    <<"admin", "admin", "PeopleSoft Administrator">>,
    <<"fscm", "fscm", "PeopleSoft FSCM Consultant">>,
    <<"finance", "finance", "PeopleSoft Finance Specialist">>,
    <<"bda", "business data", "PeopleSoft Business Data Analyst">> >>

\* C6: under a folder that lowercases to "peoplesoft resumes" the profile is the
\* first sub-role, in the order admin, fscm, finance, business data, whose marker
\* is in the file name or the text, else the generic PeopleSoft profile; a file
\* name containing "admin" gives "PeopleSoft Administrator" whatever else it or
\* the text contains
FolderOverride ==
    (pc = "label_done" /\ lower(folder_name) = "peoplesoft resumes") =>
        LET hits == {i \in 1..Len(PeopleSoftSubRoles) :
                        \/ Contains(lower(file_name), PeopleSoftSubRoles[i][1])
                        \/ Contains(lower(extracted_text), PeopleSoftSubRoles[i][2])}
        IN /\ Contains(lower(file_name), "admin") =>
                  Profile = "PeopleSoft Administrator"
           /\ hits = {} => Profile = "PeopleSoft Technical/Functional Consultant"
           /\ hits # {} =>
                  \E i \in hits : /\ \A j \in hits : i <= j
                                  /\ Profile = PeopleSoftSubRoles[i][3]

\* a file name with both "admin" and "finance", a text with "fscm"
FolderOverrideWitness ==
    /\ pc = "label_done"
    /\ folder_name = "PeopleSoft Resumes"
    /\ Contains(file_name, "admin") /\ Contains(file_name, "finance")
    /\ Contains(lower(extracted_text), "fscm")
    /\ Profile = "PeopleSoft Administrator"

\* C10: the Category lookup and the folder tier of derive_profile agree on whether
\* the folder is a FOLDER_CATEGORY_MAP key: the Category is a mapped value exactly
\* when the Profile comes from the mapped-folder branch
CategoryProfileAgree ==
    pc = "label_done" =>
        /\ HasKey(FOLDER_CATEGORY_MAP, lower(folder_name)) <=> folder_is_mapped(folder_name)
        /\ Category # DEFAULT_CATEGORY <=> folder_is_mapped(folder_name)
        /\ Category = "Workday" <=>
               (folder_is_mapped(folder_name) /\ Profile = "Workday Specialist")

-----------------------------------------------------------------------------
(* Extraction: one extract_text call on one file *)

InitExtract ==
    /\ pc = "extract"
    /\ file_path \in ExtractPaths
    /\ content \in Contents
    /\ extracted = Idle
    /\ s = Idle /\ cleaned = <<>>
    /\ prefix = Idle /\ maybe = Idle
    /\ file_name = Idle /\ folder_name = Idle /\ extracted_text = Idle
    /\ Category = Idle /\ Profile = Idle
    /\ tree = {} /\ runs = <<>>

Extract ==
    /\ pc = "extract"
    /\ extracted' = extract_text(file_path, content)
    /\ pc' = "extract_done"
    /\ UNCHANGED <<file_path, content, cleanVars, prefixVars, labelVars, walkVars>>

\* a direct call of one of the guarded extractors, which extract_text never calls
ExtractWithHelper ==
    /\ pc = "extract"
    /\ \E helper \in {"pdf", "docx", "doc"} :
           extracted' = CASE helper = "pdf"  -> extract_text_from_pdf(content)
                          [] helper = "docx" -> extract_text_from_docx(content)
                          [] helper = "doc"  -> extract_text_from_doc(content)
    /\ pc' = "helper_done"
    /\ UNCHANGED <<file_path, content, cleanVars, prefixVars, labelVars, walkVars>>

NextExtract == Extract \/ ExtractWithHelper

SpecExtract == InitExtract /\ [][NextExtract]_vars

\* the lowercased extension of the path
ExtOf(path) == lower(splitext(basename(path))[2])

RESUME_EXTS == {".pdf", ".docx", ".doc", ".txt"}

\* C1: extract_text never propagates an exception: on every path with a
\* resume-like extension and every content it returns a string, the empty string
\* for a zero-byte file
ExtractNeverRaises ==
    (pc = "extract_done" /\ ExtOf(file_path) \in RESUME_EXTS) =>
        /\ ~extracted.raised
        /\ extracted.value \in STRING
        /\ content.kind = "empty" => extracted.value = ""

\* C3: extract_text dispatches on the lowercased extension: .pdf, .docx, .doc and
\* .txt in any letter case go to the PDF, DOCX, legacy-document and text
\* strategies, and any other extension returns the empty string
ExtensionDispatch ==
    pc = "extract_done" =>
        LET ext == ExtOf(file_path)
        IN /\ ext = ".pdf" => extracted.strategy = "pdf"
           /\ ext = ".docx" => extracted.strategy = "docx"
           /\ ext = ".doc" => extracted.strategy = "legacy_doc"
           /\ ext = ".txt" => extracted.strategy = "text"
           /\ ext \notin RESUME_EXTS => (~extracted.raised /\ extracted.value = "")

-----------------------------------------------------------------------------
(* Corpus walk: two preprocess_data runs over one unmodified tree *)

Init ==
    /\ pc = "walk"
    /\ tree \in Trees
    /\ runs = <<>>
    /\ s = Idle /\ cleaned = <<>>
    /\ prefix = Idle /\ maybe = Idle
    /\ file_name = Idle /\ folder_name = Idle /\ extracted_text = Idle
    /\ Category = Idle /\ Profile = Idle
    /\ file_path = Idle /\ content = Idle /\ extracted = Idle

Preprocess ==
    /\ pc = "walk"
    /\ Len(runs) < 2
    /\ \E order \in WalkOrders(tree) :
           runs' = Append(runs, preprocess_data(order))
    /\ UNCHANGED <<pc, tree, cleanVars, prefixVars, labelVars, extractVars>>

Next == Preprocess

Spec == Init /\ [][Next]_vars

\* the number of times each element occurs in a sequence
BagOfSeq(seq) ==
    [x \in {seq[i] : i \in DOMAIN seq} |-> Cardinality({i \in DOMAIN seq : seq[i] = x})]

\* the (Folder, File, Category, Profile) tuples of a returned table
LabelTuples(rows) ==
    [i \in DOMAIN rows |->
        <<rows[i].Folder, rows[i].File, rows[i].Category, rows[i].Profile>>]

\* C2: the walk never aborts on a per-file failure: every run returns exactly one
\* record per file under the root, with empty Text for a file whose library call
\* fails
WalkNeverAborts ==
    \A r \in DOMAIN runs :
        /\ ~runs[r].raised
        /\ Len(runs[r].rows) = Cardinality(tree)
        /\ \A f \in tree :
               \E i \in DOMAIN runs[r].rows :
                   /\ runs[r].rows[i].Path = join(f.root, f.fname)
                   /\ extract_text(join(f.root, f.fname), f.content).raised =>
                          runs[r].rows[i].Text = ""

\* C8: two runs over an unmodified tree end the same way and, whatever the orders
\* of the visits, return the same multiset of (Folder, File, Category, Profile)
CorpusOrderIndependent ==
    Len(runs) = 2 =>
        /\ runs[1].raised = runs[2].raised
        /\ BagOfSeq(LabelTuples(runs[1].rows)) = BagOfSeq(LabelTuples(runs[2].rows))

\* two runs that visited three files in different orders, two of the records
\* sharing their (Folder, File, Category, Profile)
CorpusOrderWitness ==
    /\ Len(runs) = 2
    /\ ~runs[1].raised
    /\ Len(runs[1].rows) = 3
    /\ runs[1].rows # runs[2].rows
    /\ \E x \in DOMAIN BagOfSeq(LabelTuples(runs[1].rows)) :
           BagOfSeq(LabelTuples(runs[1].rows))[x] = 2
    /\ \E i \in 1..3 : runs[1].rows[i].Profile # runs[1].rows[3].Profile

====
